---- MODULE Spec2Model ----
(***************************************************************************)
(* The lexer of apollo-parser (crates/apollo-parser/src/lexer): the        *)
(* character cursor (cursor.rs), the scanner state machine                 *)
(* Cursor::new_advance and the loop of Lexer::new (mod.rs).                *)
(*                                                                         *)
(* The source text is a sequence of UTF-8 bytes.  A byte is a string: an   *)
(* ASCII byte is the character itself, the bytes of a multi-byte character *)
(* are written in hex ("C2", "85").  All offsets are byte offsets, as in   *)
(* the Rust code; slicing the source off a character boundary aborts the   *)
(* program (pc = "panic").                                                 *)
(***************************************************************************)
EXTENDS Integers, Sequences, FiniteSets, TLC

VARIABLES cursor, state, token, tokens, errors, pc, ret, scalar_type_defs

vars == <<cursor, state, token, tokens, errors, pc, ret, scalar_type_defs>>

(***************************************************************************)
(* Option<T>: None is the empty sequence, Some(x) a one-element sequence.  *)
(***************************************************************************)
None == <<>>
Some(x) == <<x>>

(***************************************************************************)
(* Characters and their UTF-8 encoding                                     *)
(***************************************************************************)
NEL == "U+0085"
BOM == "U+FEFF"
LRM == "U+200E"
RLM == "U+200F"
LSEP == "U+2028"
PSEP == "U+2029"
VT == "U+000B"

MultiByteChars == {NEL, BOM, LRM, RLM, LSEP, PSEP}

Utf8(c) ==
    CASE c = NEL  -> <<"C2", "85">>
      [] c = BOM  -> <<"EF", "BB", "BF">>
      [] c = LRM  -> <<"E2", "80", "8E">>
      [] c = RLM  -> <<"E2", "80", "8F">>
      [] c = LSEP -> <<"E2", "80", "A8">>
      [] c = PSEP -> <<"E2", "80", "A9">>
      [] OTHER    -> <<c>>

LeadBytes == {"C2", "EF", "E2"}
ContinuationBytes == {"85", "BB", "BF", "80", "8E", "8F", "A8", "A9"}

RECURSIVE Utf8Str(_)
Utf8Str(cs) == IF cs = <<>> THEN <<>> ELSE Utf8(Head(cs)) \o Utf8Str(Tail(cs))

\* str::len
StrLen(src) == Len(src)

\* The character whose encoding starts at byte offset p of src (p < len).
DecodeAt(src, p) ==
    IF src[p + 1] \in LeadBytes
    THEN CHOOSE c \in MultiByteChars :
            /\ p + Len(Utf8(c)) <= Len(src)
            /\ SubSeq(src, p + 1, p + Len(Utf8(c))) = Utf8(c)
    ELSE src[p + 1]

\* str::is_char_boundary
IsCharBoundary(src, i) ==
    \/ i = 0
    \/ i = Len(src)
    \/ (i < Len(src) /\ src[i + 1] \notin ContinuationBytes)

\* &src[a..b] is defined (does not panic)
SliceOk(src, a, b) ==
    /\ a <= b
    /\ b <= Len(src)
    /\ IsCharBoundary(src, a)
    /\ IsCharBoundary(src, b)

\* &src[a..b] that leaves out the last byte.
Slice_LastDropped(src, a, b) == SubSeq(src, a + 1, b - 1)

\* &src[a..b]
Slice(src, a, b) == SubSeq(src, a + 1, b)

\* CharIndices::next on the iterator at byte position it: None at the end,
\* else the position and the character, and the iterator after it.
CharsNext(src, it) ==
    IF it >= Len(src)
    THEN None
    ELSE LET c == DecodeAt(src, it)
         IN Some([pos |-> it, c |-> c, rest |-> it + Len(Utf8(c))])

(***************************************************************************)
(* Character classes (mod.rs)                                              *)
(***************************************************************************)
WhitespaceChars ==
    {"\t", "\n", VT, "\f", "\r", " ", BOM, NEL, LRM, RLM, LSEP, PSEP}

is_whitespace(c) == c \in WhitespaceChars

Letters ==
    {"a", "b", "c", "d", "e", "f", "g", "h", "i", "j", "k", "l", "m",
     "n", "o", "p", "q", "r", "s", "t", "u", "v", "w", "x", "y", "z",
     "A", "B", "C", "D", "E", "F", "G", "H", "I", "J", "K", "L", "M",
     "N", "O", "P", "Q", "R", "S", "T", "U", "V", "W", "X", "Y", "Z"}

is_ident_char(c) == c \in Letters \cup {"_"}

is_line_terminator(c) == c \in {"\n", "\r"}

Digits == {"0", "1", "2", "3", "4", "5", "6", "7", "8", "9"}

is_digit_char(c) == c \in Digits

is_escaped_char(c) == c \in {"\"", "\\", "/", "b", "f", "n", "r", "t"}

\* '\t' | '\r' | '\n' | U+0020..=U+FFFF: of the characters of this model
\* only vertical tab and form feed are outside.
is_source_char(c) == c \notin {VT, "\f"}

\* The kind of the punctuator c (State::Start, the arms that return at once).
PunctuatorKind(c) ==
    CASE c = "!" -> "Bang"
      [] c = "$" -> "Dollar"
      [] c = "&" -> "Amp"
      [] c = "(" -> "LParen"
      [] c = ")" -> "RParen"
      [] c = ":" -> "Colon"
      [] c = "," -> "Comma"
      [] c = "=" -> "Eq"
      [] c = "@" -> "At"
      [] c = "[" -> "LBracket"
      [] c = "]" -> "RBracket"
      [] c = "{" -> "LCurly"
      [] c = "|" -> "Pipe"
      [] c = "}" -> "RCurly"

Punctuators ==
    {"!", "$", "&", "(", ")", ":", ",", "=", "@", "[", "]", "{", "|", "}"}

(***************************************************************************)
(* Token and Error                                                         *)
(***************************************************************************)
\* Token::new(kind, data)
TokenNew(kind, data) == [kind |-> kind, data |-> data, index |-> 0]

\* Error::new(message, data); arg is the text format! puts in place of {}
\* in the message (the backquotes around it are left out).
ErrorNew(message, arg, data) ==
    [message |-> message, arg |-> arg, data |-> data, index |-> 0]

EofData == <<"E", "O", "F">>

(***************************************************************************)
(* Cursor (cursor.rs)                                                      *)
(***************************************************************************)
CursorNew(input) ==
    [index |-> 0, offset |-> 0, prev |-> 0, pending |-> None,
     source |-> input, chars |-> 0, err |-> None]

\* Cursor::pending_len
pending_len(cur) == cur.offset - cur.index

\* prev_str that leaves index where it was.
prev_str_IndexNotMoved(cur) ==
    IF ~SliceOk(cur.source, cur.index, cur.offset)
    THEN [panic |-> TRUE, slice |-> <<>>, cur |-> cur]
    ELSE [panic |-> FALSE,
          slice |-> Slice(cur.source, cur.index, cur.offset),
          cur   |-> [cur EXCEPT
                        !.pending =
                            IF cur.offset >= Len(cur.source)
                            THEN None
                            ELSE Some(DecodeAt(cur.source, cur.offset))]]

\* Cursor::prev_str: the slice and the cursor after it, or a panic.
prev_str(cur) ==
    IF ~SliceOk(cur.source, cur.index, cur.offset)
    THEN [panic |-> TRUE, slice |-> <<>>, cur |-> cur]
    ELSE [panic |-> FALSE,
          slice |-> Slice(cur.source, cur.index, cur.offset),
          cur   |-> [cur EXCEPT
                        !.index = cur.offset,
                        !.pending =
                            IF cur.offset >= Len(cur.source)
                            THEN None
                            ELSE Some(DecodeAt(cur.source, cur.offset))]]

\* current_str that moves index to the next character and leaves offset.
current_str_OffsetNotMoved(cur) ==
    IF ~SliceOk(cur.source, cur.index, cur.offset + 1)
    THEN [panic |-> TRUE, slice |-> <<>>, cur |-> cur]
    ELSE LET n == CharsNext(cur.source, cur.chars)
         IN [panic |-> FALSE,
             slice |-> Slice(cur.source, cur.index, cur.offset + 1),
             cur   |-> IF n = None
                       THEN [cur EXCEPT !.pending = None,
                                        !.index = cur.offset]
                       ELSE [cur EXCEPT !.index = n[1].pos,
                                        !.pending = Some(n[1].c),
                                        !.chars = n[1].rest]]

\* Cursor::current_str
current_str(cur) ==
    IF ~SliceOk(cur.source, cur.index, cur.offset + 1)
    THEN [panic |-> TRUE, slice |-> <<>>, cur |-> cur]
    ELSE LET n == CharsNext(cur.source, cur.chars)
         IN [panic |-> FALSE,
             slice |-> Slice(cur.source, cur.index, cur.offset + 1),
             cur   |-> IF n = None
                       THEN [cur EXCEPT !.pending = None,
                                        !.index = cur.offset]
                       ELSE [cur EXCEPT !.index = n[1].pos,
                                        !.offset = n[1].pos,
                                        !.pending = Some(n[1].c),
                                        !.chars = n[1].rest]]

\* bump that returns the pending character and keeps it pending.
bump_PendingNotCleared(cur) ==
    IF cur.pending # None
    THEN [c |-> cur.pending, cur |-> cur]
    ELSE IF cur.offset = StrLen(cur.source)
    THEN [c |-> None, cur |-> cur]
    ELSE LET n == CharsNext(cur.source, cur.chars)
         IN IF n = None
            THEN [c |-> None, cur |-> cur]
            ELSE [c |-> Some(n[1].c),
                  cur |-> [cur EXCEPT !.prev = cur.offset,
                                      !.offset = n[1].pos,
                                      !.chars = n[1].rest]]

\* Cursor::bump: the character read (an Option) and the cursor after it.
bump(cur) ==
    IF cur.pending # None
    THEN [c |-> cur.pending, cur |-> [cur EXCEPT !.pending = None]]
    ELSE IF cur.offset = StrLen(cur.source)
    THEN [c |-> None, cur |-> cur]
    ELSE LET n == CharsNext(cur.source, cur.chars)
         IN IF n = None
            THEN [c |-> None, cur |-> cur]
            ELSE [c |-> Some(n[1].c),
                  cur |-> [cur EXCEPT !.prev = cur.offset,
                                      !.offset = n[1].pos,
                                      !.chars = n[1].rest]]

\* eatc that drops the character it read when it is not c.
eatc_NotStashed(cur, c) ==
    IF cur.pending # None
    THEN [panic |-> TRUE, r |-> FALSE, cur |-> cur]
    ELSE LET n == CharsNext(cur.source, cur.chars)
         IN IF n = None
            THEN [panic |-> FALSE, r |-> FALSE, cur |-> cur]
            ELSE [panic |-> FALSE, r |-> n[1].c = c,
                  cur |-> [cur EXCEPT !.prev = cur.offset,
                                      !.offset = n[1].pos,
                                      !.chars = n[1].rest]]

\* Cursor::eatc: whether c was read (r) and the cursor after it, or a panic.
eatc(cur, c) ==
    IF cur.pending # None
    THEN [panic |-> TRUE, r |-> FALSE, cur |-> cur]
    ELSE LET n == CharsNext(cur.source, cur.chars)
         IN IF n = None
            THEN [panic |-> FALSE, r |-> FALSE, cur |-> cur]
            ELSE LET read == [cur EXCEPT !.prev = cur.offset,
                                         !.offset = n[1].pos,
                                         !.chars = n[1].rest]
                 IN IF n[1].c = c
                    THEN [panic |-> FALSE, r |-> TRUE, cur |-> read]
                    ELSE [panic |-> FALSE, r |-> FALSE,
                          cur |-> [read EXCEPT !.pending = Some(n[1].c)]]

\* Cursor::drain
RECURSIVE drain(_)
drain(cur) ==
    LET n == CharsNext(cur.source, cur.chars)
    IN IF n = None
       THEN cur
       ELSE drain([cur EXCEPT !.prev = cur.offset,
                              !.offset = n[1].pos,
                              !.chars = n[1].rest])

\* Cursor::err
err(cur) == cur.err

\* Cursor::add_err
add_err(cur, e) == [cur EXCEPT !.err = Some(e)]

(***************************************************************************)
(* The scanner.  m is the whole program state as a record                  *)
(* [cursor, state, token, tokens, errors, pc]; every arm of new_advance    *)
(* maps the state after bump() to the state after the arm.                 *)
(*   pc = "call"  : Lexer::new is about to call new_advance                *)
(*   pc = "loop"  : new_advance is at the top of its loop                  *)
(*   pc = "done"  : Lexer::new has returned                                *)
(*   pc = "panic" : the program has aborted                                *)
(***************************************************************************)
Panic(m) == [m EXCEPT !.pc = "panic"]

\* Lexer::new, match r: Ok(token) is pushed, and Eof ends the loop.
ReturnOk(m, tok) ==
    [m EXCEPT !.token = tok,
              !.tokens = Append(@, tok),
              !.pc = IF tok.kind = "Eof" THEN "done" ELSE "call"]

\* Lexer::new, match r: Err(e) is pushed and the loop goes on.
ReturnErr(m, e) ==
    [m EXCEPT !.errors = Append(@, e), !.pc = "call"]

\* After the loop of new_advance (break): a recorded error replaces the token.
ErrorFinalization(m) ==
    IF err(m.cursor) # None
    THEN ReturnErr([m EXCEPT !.cursor.err = None],
                   [err(m.cursor)[1] EXCEPT !.data = m.token.data,
                                            !.index = m.token.index])
    ELSE ReturnOk(m, m.token)

\* token.data = self.current_str().to_string(); return Ok(token)
CurrentStrReturn(m) ==
    LET r == current_str(m.cursor)
    IN IF r.panic
       THEN Panic(m)
       ELSE ReturnOk([m EXCEPT !.cursor = r.cur],
                     [m.token EXCEPT !.data = r.slice])

\* token.data = self.current_str().to_string(); break
CurrentStrBreak(m) ==
    LET r == current_str(m.cursor)
    IN IF r.panic
       THEN Panic(m)
       ELSE ErrorFinalization([m EXCEPT !.cursor = r.cur,
                                        !.token.data = r.slice])

\* token.data = self.prev_str().to_string(); break
PrevStrBreak(m) ==
    LET r == prev_str(m.cursor)
    IN IF r.panic
       THEN Panic(m)
       ELSE ErrorFinalization([m EXCEPT !.cursor = r.cur,
                                        !.token.data = r.slice])

\* let curr = self.current_str(); return Err(Error::new(format!(msg, curr), curr))
CurrentStrErr(m, msg) ==
    LET r == current_str(m.cursor)
    IN IF r.panic
       THEN Panic(m)
       ELSE ReturnErr([m EXCEPT !.cursor = r.cur],
                      ErrorNew(msg, r.slice, r.slice))

\* A punctuator arm that does not set token.kind.
PunctuatorArm_KindNotSet(m, c) == CurrentStrReturn(m)

\* State::Start, the arms of the punctuators
PunctuatorArm(m, c) ==
    CurrentStrReturn([m EXCEPT !.token.kind = PunctuatorKind(c)])

\* State::Start
StartArm(m, c) ==
    IF c = "\"" THEN
        [m EXCEPT !.token.kind = "StringValue", !.state = "StringLiteral"]
    ELSE IF c = "#" THEN
        [m EXCEPT !.token.kind = "Comment", !.state = "Comment"]
    ELSE IF c = "." THEN
        [m EXCEPT !.token.kind = "Spread", !.state = "SpreadOperator"]
    ELSE IF is_whitespace(c) THEN
        [m EXCEPT !.token.kind = "Whitespace", !.state = "Whitespace"]
    ELSE IF is_ident_char(c) THEN
        [m EXCEPT !.token.kind = "Name", !.state = "Ident"]
    ELSE IF c \in {"+", "-"} THEN
        [m EXCEPT !.token.kind = "Int", !.state = "PlusMinus"]
    ELSE IF is_digit_char(c) THEN
        [m EXCEPT !.token.kind = "Int", !.state = "IntLiteral"]
    ELSE IF c \in Punctuators THEN
        PunctuatorArm(m, c)
    ELSE
        ReturnErr(m, ErrorNew("Unexpected character", <<>>, Utf8(c)))

\* State::Ident that ends a name at a digit.
IdentArm_NoDigits(m, c) ==
    IF is_ident_char(c) THEN m ELSE PrevStrBreak(m)

\* State::Ident
IdentArm(m, c) ==
    IF is_ident_char(c) \/ is_digit_char(c) THEN m ELSE PrevStrBreak(m)

\* State::Whitespace
WhitespaceArm(m, c) ==
    IF is_whitespace(c) THEN m ELSE PrevStrBreak(m)

\* State::StringLiteral
StringLiteralArm(m, c) ==
    IF c = "\"" THEN
        CurrentStrBreak(m)
    ELSE IF is_line_terminator(c) THEN
        LET r == prev_str(drain(m.cursor))
        IN IF r.panic
           THEN Panic(m)
           ELSE ErrorFinalization(
                    [m EXCEPT !.cursor =
                                  add_err(r.cur,
                                          ErrorNew("unterminated string value",
                                                   <<>>, <<>>)),
                              !.token.data = r.slice])
    ELSE IF c = "\\" THEN
        [m EXCEPT !.state = "StringLiteralBackslash"]
    ELSE IF is_source_char(c) THEN
        m
    ELSE
        CurrentStrBreak(m)

\* State::StringLiteralBackslash that records no error.
StringLiteralBackslashArm_NoError(m, c) == [m EXCEPT !.state = "StringLiteral"]

\* State::StringLiteralBackslash
StringLiteralBackslashArm(m, c) ==
    IF is_escaped_char(c) THEN
        [m EXCEPT !.state = "StringLiteral"]
    ELSE IF c = "u" THEN
        [m EXCEPT !.state = "StringLiteral"]
    ELSE
        [m EXCEPT !.cursor = add_err(m.cursor,
                                     ErrorNew("unexpected escaped character",
                                              <<>>, Utf8(c))),
                  !.state = "StringLiteral"]

\* State::IntLiteral
IntLiteralArm(m, c) ==
    IF is_digit_char(c) THEN
        m
    ELSE IF c = "." THEN
        [m EXCEPT !.token.kind = "Float", !.state = "FloatLiteral"]
    ELSE IF c \in {"e", "E"} THEN
        [m EXCEPT !.token.kind = "Float", !.state = "ExponentLiteral"]
    ELSE
        PrevStrBreak(m)

\* State::FloatLiteral
FloatLiteralArm(m, c) ==
    IF is_digit_char(c) THEN
        m
    ELSE IF c = "." THEN
        [m EXCEPT !.cursor = add_err(m.cursor,
                                     ErrorNew("Unexpected character {}",
                                              Utf8(c), Utf8(c)))]
    ELSE IF c \in {"e", "E"} THEN
        [m EXCEPT !.state = "ExponentLiteral"]
    ELSE
        PrevStrBreak(m)

\* State::ExponentLiteral
ExponentLiteralArm(m, c) ==
    IF is_digit_char(c) THEN
        [m EXCEPT !.state = "FloatLiteral"]
    ELSE IF c \in {"+", "-"} THEN
        [m EXCEPT !.state = "FloatLiteral"]
    ELSE
        CurrentStrErr(m, "Unexpected character {}")

\* State::SpreadOperator
SpreadOperatorArm(m, c) ==
    IF c = "." THEN
        IF pending_len(m.cursor) = 2 THEN CurrentStrReturn(m) ELSE m
    ELSE
        LET r == current_str(m.cursor)
        IN IF r.panic
           THEN Panic(m)
           ELSE [m EXCEPT !.cursor =
                              add_err(r.cur,
                                      ErrorNew("Unterminated spread operator",
                                               <<>>, r.slice))]

\* State::PlusMinus
PlusMinusArm(m, c) ==
    IF is_digit_char(c) THEN
        [m EXCEPT !.state = "IntLiteral"]
    ELSE
        CurrentStrErr(m, "Unexpected character {}")

\* State::Comment
CommentArm(m, c) ==
    IF is_line_terminator(c) THEN CurrentStrBreak(m) ELSE m

\* End of input in State::Start without token.index += 1.
EofReturn_IndexNotAdvanced(m) == ReturnOk(m, m.token)

\* End of input in State::Start: token.index += 1; return Ok(token)
EofReturn(m) == ReturnOk(m, [m.token EXCEPT !.index = @ + 1])

\* new_advance, bump() returned None: the match on the state at end of input.
EndOfInputArm(m) ==
    IF m.state = "Start" THEN
        EofReturn(m)
    ELSE IF m.state = "StringLiteral" THEN
        ReturnErr(m, ErrorNew("unexpected end of data while lexing string value",
                              <<>>, <<"\"">>))
    ELSE IF m.state = "SpreadOperator" THEN
        LET r == current_str(m.cursor)
        IN IF r.panic
           THEN Panic(m)
           ELSE ReturnErr([m EXCEPT !.cursor = r.cur],
                          ErrorNew("Unterminated spread operator", <<>>, r.slice))
    ELSE
        LET r == current_str(m.cursor)
        IN IF r.panic
           THEN Panic(m)
           ELSE IF err(m.cursor) # None
           THEN ReturnErr([m EXCEPT !.cursor = r.cur],
                          [err(m.cursor)[1] EXCEPT !.data = r.slice])
           ELSE ReturnOk([m EXCEPT !.cursor = r.cur],
                         [m.token EXCEPT !.data = r.slice])

\* new_advance up to its loop: the state and the token it starts from.
NewAdvanceEnter(m) ==
    [m EXCEPT !.state = "Start",
              !.token = [TokenNew("Eof", EofData) EXCEPT
                            !.index = m.cursor.index],
              !.pc = "loop"]

\* The arm of the match on the state for the character c.
StateArm(m, c) ==
    CASE m.state = "Start"                  -> StartArm(m, c)
      [] m.state = "Ident"                  -> IdentArm(m, c)
      [] m.state = "Whitespace"             -> WhitespaceArm(m, c)
      [] m.state = "StringLiteral"          -> StringLiteralArm(m, c)
      [] m.state = "StringLiteralBackslash" -> StringLiteralBackslashArm(m, c)
      [] m.state = "IntLiteral"             -> IntLiteralArm(m, c)
      [] m.state = "FloatLiteral"           -> FloatLiteralArm(m, c)
      [] m.state = "ExponentLiteral"        -> ExponentLiteralArm(m, c)
      [] m.state = "SpreadOperator"         -> SpreadOperatorArm(m, c)
      [] m.state = "PlusMinus"              -> PlusMinusArm(m, c)
      [] m.state = "Comment"                -> CommentArm(m, c)

\* One iteration of the loop of new_advance: bump(), then the match.
LoopStep(m) ==
    LET b == bump(m.cursor)
        mb == [m EXCEPT !.cursor = b.cur]
    IN IF b.c = None THEN EndOfInputArm(mb) ELSE StateArm(mb, b.c[1])

\* Lexer::new(input) up to its first call of new_advance.
LexerNew(input) ==
    [cursor |-> CursorNew(input),
     state  |-> "Start",
     token  |-> TokenNew("Eof", EofData),
     tokens |-> <<>>,
     errors |-> <<>>,
     pc     |-> "call"]

\* One step of the program.
Step(m) == IF m.pc = "call" THEN NewAdvanceEnter(m) ELSE LoopStep(m)

\* Lexer::new(input) run to its end (returned or aborted).
RECURSIVE RunFrom(_)
RunFrom(m) == IF m.pc \in {"done", "panic"} THEN m ELSE RunFrom(Step(m))

Lex(input) == RunFrom(LexerNew(input))

(***************************************************************************)
(* The state machine                                                       *)
(***************************************************************************)
M == [cursor |-> cursor, state |-> state, token |-> token,
      tokens |-> tokens, errors |-> errors, pc |-> pc]

Set(m) ==
    /\ cursor' = m.cursor
    /\ state' = m.state
    /\ token' = m.token
    /\ tokens' = m.tokens
    /\ errors' = m.errors
    /\ pc' = m.pc
    /\ UNCHANGED <<ret, scalar_type_defs>>

\* bump() in the loop of new_advance yields a character in state s.
Reads(s) == pc = "loop" /\ state = s /\ bump(cursor).c # None

\* The program state after bump().
Bumped == [M EXCEPT !.cursor = bump(cursor).cur]

NewAdvance == pc = "call" /\ Set(NewAdvanceEnter(M))

Start == Reads("Start") /\ Set(StartArm(Bumped, bump(cursor).c[1]))

Ident == Reads("Ident") /\ Set(IdentArm(Bumped, bump(cursor).c[1]))

Whitespace ==
    Reads("Whitespace") /\ Set(WhitespaceArm(Bumped, bump(cursor).c[1]))

StringLiteral ==
    Reads("StringLiteral") /\ Set(StringLiteralArm(Bumped, bump(cursor).c[1]))

StringLiteralBackslash ==
    /\ Reads("StringLiteralBackslash")
    /\ Set(StringLiteralBackslashArm(Bumped, bump(cursor).c[1]))

IntLiteral ==
    Reads("IntLiteral") /\ Set(IntLiteralArm(Bumped, bump(cursor).c[1]))

FloatLiteral ==
    Reads("FloatLiteral") /\ Set(FloatLiteralArm(Bumped, bump(cursor).c[1]))

ExponentLiteral ==
    /\ Reads("ExponentLiteral")
    /\ Set(ExponentLiteralArm(Bumped, bump(cursor).c[1]))

SpreadOperator ==
    Reads("SpreadOperator") /\ Set(SpreadOperatorArm(Bumped, bump(cursor).c[1]))

PlusMinus ==
    Reads("PlusMinus") /\ Set(PlusMinusArm(Bumped, bump(cursor).c[1]))

Comment == Reads("Comment") /\ Set(CommentArm(Bumped, bump(cursor).c[1]))

EndOfInput ==
    /\ pc = "loop"
    /\ bump(cursor).c = None
    /\ Set(EndOfInputArm(Bumped))

(***************************************************************************)
(* Inputs                                                                  *)
(***************************************************************************)
\* Longest input over the whole alphabet.
MaxLen == 3
\* Longest input of dots, names, punctuators and spaces.
MaxSpreadLen == 6
\* Longest input of quotes, backslashes, letters and line terminators.
MaxStringLen == 5
\* Longest input of quotes, letters and line terminators (block strings).
MaxBlockLen == 7
\* Longest input of digits, dots, exponents and signs.
MaxNumberLen == 4
\* Longest input put between two spaces on either side.
MaxPaddedLen == 2

Alphabet ==
    {"\"", "\\", "#", ".", " ", "\n", "e", "1", "+", "{", "?", NEL}
SpreadAlphabet == {".", "e", "{", " "}
StringAlphabet == {"\"", "\\", "e", "\n"}
BlockAlphabet == {"\"", "e", "\n"}
NumberAlphabet == {"1", ".", "e", "+", " "}
EscapeAlphabet ==
    {"\"", "\\", "/", "b", "f", "n", "r", "t", "u", "e", "1", " ", "\n", NEL}

Strs(A, n) == UNION {[1..k -> A] : k \in 0..n}

Padded(s) == <<" ", " ">> \o s \o <<" ", " ">>

\* A string of one escape, alone and before a letter.
EscapeInputs ==
    UNION {{<<"\"", "\\", c, "\"">>, <<"\"", "\\", c, "\"", "e">>} :
               c \in EscapeAlphabet}

Inputs ==
    Strs(Alphabet, MaxLen)
        \cup Strs(SpreadAlphabet, MaxSpreadLen)
        \cup Strs(StringAlphabet, MaxStringLen)
        \cup Strs(BlockAlphabet, MaxBlockLen)
        \cup Strs(NumberAlphabet, MaxNumberLen)
        \cup {Padded(s) : s \in Strs(Alphabet, MaxPaddedLen)}
        \cup EscapeInputs

Init ==
    \E cs \in Inputs :
        /\ cursor = CursorNew(Utf8Str(cs))
        /\ state = "Start"
        /\ token = TokenNew("Eof", EofData)
        /\ tokens = <<>>
        /\ errors = <<>>
        /\ pc = "call"
        /\ ret = None
        /\ scalar_type_defs = <<>>

Next ==
    \/ NewAdvance
    \/ Start
    \/ Ident
    \/ Whitespace
    \/ StringLiteral
    \/ StringLiteralBackslash
    \/ IntLiteral
    \/ FloatLiteral
    \/ ExponentLiteral
    \/ SpreadOperator
    \/ PlusMinus
    \/ Comment
    \/ EndOfInput

Spec == Init /\ [][Next]_vars

(***************************************************************************)
(* The cursor on its own: bump and eatc called in any order on a new       *)
(* cursor.  ret is the last call, its argument and the value it returned;  *)
(* eatc with a character pending aborts (pc = "panic").                    *)
(***************************************************************************)
\* Longest input of the cursor on its own.
MaxCursorLen == 3

CursorAlphabet == {"\"", "e", NEL}

CursorInit ==
    \E cs \in Strs(CursorAlphabet, MaxCursorLen) :
        /\ cursor = CursorNew(Utf8Str(cs))
        /\ state = "Start"
        /\ token = TokenNew("Eof", EofData)
        /\ tokens = <<>>
        /\ errors = <<>>
        /\ pc = "cursor"
        /\ ret = None
        /\ scalar_type_defs = <<>>

CursorBump ==
    /\ pc = "cursor"
    /\ cursor' = bump(cursor).cur
    /\ ret' = Some([op |-> "bump", arg |-> None, value |-> bump(cursor).c])
    /\ UNCHANGED <<state, token, tokens, errors, pc, scalar_type_defs>>

CursorEatc ==
    /\ pc = "cursor"
    /\ \E c \in CursorAlphabet :
           /\ cursor' = eatc(cursor, c).cur
           /\ pc' = IF eatc(cursor, c).panic THEN "panic" ELSE "cursor"
           /\ ret' = Some([op |-> "eatc", arg |-> Some(c),
                           value |-> eatc(cursor, c).r])
    /\ UNCHANGED <<state, token, tokens, errors, scalar_type_defs>>

CursorNext == CursorBump \/ CursorEatc

CursorSpec == CursorInit /\ [][CursorNext]_vars

(***************************************************************************)
(* DocumentBuilder::scalar_type_definition (apollo-smith).  A              *)
(* ScalarTypeDef is a record of name, description, directives and extend;  *)
(* the directives map is its set of keys.  A Result is Ok(v) or Err.  The  *)
(* builder's unstructured data and the calls type_name, description and    *)
(* directives are choices: any boolean, any value of the type, or Err.     *)
(* ret is the result of the last call; the caller appends an Ok result to  *)
(* scalar_type_defs.                                                       *)
(***************************************************************************)
\* Most scalar definitions a document is given.
MaxScalars == 2

ScalarNames == {"A", "B"}
DirectiveNames == {"d"}
Descriptions == {"text"}

Ok(v) == [ok |-> TRUE, value |-> <<v>>]
Err == [ok |-> FALSE, value |-> <<>>]
Results(S) == {Ok(v) : v \in S} \cup {Err}

\* The names of the scalars that are no extension.
available_scalars(defs) ==
    {defs[i].name : i \in {j \in 1..Len(defs) : ~defs[j].extend}}

\* Unstructured::choose
choose(S) == IF S = {} THEN {Err} ELSE {Ok(x) : x \in S}

\* The flag of a definition that is an extension whatever its directives.
ExtendFlag_IgnoresDirectives(directives, second) == second

\* let extend = !directives.is_empty() && self.u.arbitrary().unwrap_or(false)
ExtendFlag(directives, second) == directives # {} /\ second

\* first, has_description, second: the three booleans drawn; chosen,
\* type_name, description, directives: the results of the calls.
scalar_type_definition(defs, first, chosen, type_name, has_description, description, directives, second) ==
    LET extend == defs # <<>> /\ first
        name == IF extend THEN chosen ELSE type_name
    IN IF ~name.ok THEN Err
       ELSE IF has_description /\ ~description.ok THEN Err
       ELSE IF ~directives.ok THEN Err
       ELSE Ok([name |-> name.value[1],
                description |-> IF has_description
                                THEN Some(description.value[1]) ELSE None,
                directives |-> directives.value[1],
                extend |-> ExtendFlag(directives.value[1], second)])

ScalarInit ==
    /\ cursor = CursorNew(<<>>)
    /\ state = "Start"
    /\ token = TokenNew("Eof", EofData)
    /\ tokens = <<>>
    /\ errors = <<>>
    /\ pc = "scalar"
    /\ ret = None
    /\ scalar_type_defs = <<>>

ScalarTypeDefinition ==
    /\ pc = "scalar"
    /\ Len(scalar_type_defs) < MaxScalars
    /\ \E first, has_description, second \in BOOLEAN :
       \E chosen \in choose(available_scalars(scalar_type_defs)) :
       \E type_name \in Results(ScalarNames) :
       \E description \in Results(Descriptions) :
       \E directives \in Results(SUBSET DirectiveNames) :
           ret' = Some(scalar_type_definition(
                           scalar_type_defs, first, chosen, type_name,
                           has_description, description, directives, second))
    /\ pc' = "returned"
    /\ UNCHANGED <<cursor, state, token, tokens, errors, scalar_type_defs>>

\* The caller keeps the definition.
ScalarPush ==
    /\ pc = "returned"
    /\ ret[1].ok
    /\ scalar_type_defs' = Append(scalar_type_defs, ret[1].value[1])
    /\ pc' = "scalar"
    /\ UNCHANGED <<cursor, state, token, tokens, errors, ret>>

\* The caller is given Err and keeps nothing.
ScalarErr ==
    /\ pc = "returned"
    /\ ~ret[1].ok
    /\ pc' = "scalar"
    /\ UNCHANGED <<cursor, state, token, tokens, errors, ret, scalar_type_defs>>

ScalarNext == ScalarTypeDefinition \/ ScalarPush \/ ScalarErr

ScalarSpec == ScalarInit /\ [][ScalarNext]_vars

(***************************************************************************)
(* The result of Lexer::new                                                *)
(***************************************************************************)
Source == cursor.source

Returned == pc = "done"

IsPrefix(p, s) == Len(p) <= Len(s) /\ SubSeq(s, 1, Len(p)) = p

Drop(s, n) == SubSeq(s, n + 1, Len(s))

Last(s) == s[Len(s)]

NonEofTokens == SelectSeq(tokens, LAMBDA t : t.kind # "Eof")

DataOf(rs) == [i \in 1..Len(rs) |-> rs[i].data]

RECURSIVE Concat(_)
Concat(ds) == IF ds = <<>> THEN <<>> ELSE Head(ds) \o Concat(Tail(ds))

\* The slices ts (in order) and es (in order), merged in some order, are
\* exactly the text rest: every byte of it is in one slice and in one only.
RECURSIVE Covers(_, _, _)
Covers(ts, es, rest) ==
    IF ts = <<>> /\ es = <<>>
    THEN rest = <<>>
    ELSE \/ /\ ts # <<>>
            /\ IsPrefix(Head(ts), rest)
            /\ Covers(Tail(ts), es, Drop(rest, Len(Head(ts))))
         \/ /\ es # <<>>
            /\ IsPrefix(Head(es), rest)
            /\ Covers(ts, Tail(es), Drop(rest, Len(Head(es))))

\* The token t lies in the source at its index.
AtIndex(t) ==
    /\ t.index + Len(t.data) <= Len(Source)
    /\ SubSeq(Source, t.index + 1, t.index + Len(t.data)) = t.data

(***************************************************************************)
(* C1  Losslessness: when Lexer::new has returned, the data of the non-Eof *)
(* tokens, concatenated in order, is a prefix of the input, and the token  *)
(* data and the error data together cover every byte of the input exactly  *)
(* once.                                                                   *)
(***************************************************************************)
C1_Losslessness ==
    Returned =>
        /\ IsPrefix(Concat(DataOf(NonEofTokens)), Source)
        /\ Covers(DataOf(NonEofTokens), DataOf(errors), Source)

(***************************************************************************)
(* C2  Every non-Eof token emitted so far has as index the offset at which *)
(* its data begins in the input: input[index .. index + len(data)] = data. *)
(***************************************************************************)
C2_IndexIsOffsetOfData ==
    \A i \in 1..Len(tokens) : tokens[i].kind # "Eof" => AtIndex(tokens[i])

(***************************************************************************)
(* C3  Offset monotonicity: for every two consecutive tokens (the Eof      *)
(* token included as the last one), the first ends at or before the index  *)
(* of the second.                                                          *)
(***************************************************************************)
C3_OffsetMonotonicity ==
    \A i \in 1..(Len(tokens) - 1) :
        tokens[i].index + Len(tokens[i].data) <= tokens[i + 1].index

\* Lexer::new has returned several tokens, with an error between two of them
\* (a gap) and two tokens that touch.
C3_Witness ==
    /\ Returned
    /\ errors # <<>>
    /\ \E i \in 1..(Len(tokens) - 1) :
           tokens[i].index + Len(tokens[i].data) < tokens[i + 1].index
    /\ \E i \in 1..(Len(tokens) - 1) :
           /\ tokens[i + 1].kind # "Eof"
           /\ tokens[i].index + Len(tokens[i].data) = tokens[i + 1].index

(***************************************************************************)
(* C4  When Lexer::new reports no error, the non-Eof tokens tile the       *)
(* input: the first starts at 0, each starts where the one before it ends, *)
(* and their data concatenated is the whole input.                         *)
(***************************************************************************)
C4_TilingWithoutErrors ==
    (Returned /\ errors = <<>>) =>
        LET ts == NonEofTokens
        IN /\ ts # <<>> => ts[1].index = 0
           /\ \A i \in 1..(Len(ts) - 1) :
                  ts[i].index + Len(ts[i].data) = ts[i + 1].index
           /\ Concat(DataOf(ts)) = Source

(***************************************************************************)
(* C5  Eof terminality: the tokens hold an Eof token exactly when          *)
(* Lexer::new has returned, it is the last one and the only one; and a     *)
(* scanner invocation returns Ok(Eof) only from the Start state with no    *)
(* character left to read.                                                 *)
(***************************************************************************)
EofIsLast ==
    /\ \A i \in 1..Len(tokens) :
           tokens[i].kind = "Eof" <=> (Returned /\ i = Len(tokens))
    /\ Returned => tokens # <<>>

EofOnlyAtEnd ==
    (Len(tokens') = Len(tokens) + 1 /\ Last(tokens').kind = "Eof") =>
        /\ pc = "loop"
        /\ state = "Start"
        /\ bump(cursor).c = None
        /\ cursor.chars = Len(Source)

C5_EofTerminality == []EofIsLast /\ [][EofOnlyAtEnd]_vars

\* Lexer::new has returned tokens before the Eof token, and an error.
C5_Witness ==
    /\ Returned
    /\ Len(tokens) >= 3
    /\ errors # <<>>

(***************************************************************************)
(* C6  Lexer::new terminates with the Eof token received: the program is   *)
(* sequential and every step reads a character or ends an invocation, so   *)
(* it terminates when no state other than the returned one is without a    *)
(* next step.                                                              *)
(***************************************************************************)
\* Next is enabled: Lexer::new is about to call new_advance, or new_advance
\* is in its loop (bump() yields a character or the end of input).
CanStep == pc \in {"call", "loop"}

C6_Terminates == Returned \/ CanStep

(***************************************************************************)
(* C7  As claimed: when the input is tokenized without errors, the Eof     *)
(* token has index len(input) + 1.                                         *)
(***************************************************************************)
C7_EofIndexIsLenPlusOne ==
    (Returned /\ errors = <<>>) => Last(tokens).index = Len(Source) + 1

(***************************************************************************)
(* C7  As amended: when the input is tokenized without errors, the Eof     *)
(* token has index len(input), and index 1 for the empty input.            *)
(***************************************************************************)
C7_EofIndexIsLen ==
    (Returned /\ errors = <<>>) =>
        Last(tokens).index = IF Len(Source) = 0 THEN 1 ELSE Len(Source)

\* An input of several tokens has been tokenized without errors.
C7_Witness ==
    /\ Returned
    /\ errors = <<>>
    /\ Len(tokens) >= 3
    /\ Last(tokens).index = Len(Source)

(***************************************************************************)
(* C8  Independence from surrounding whitespace: when the input is two     *)
(* spaces, s, two spaces, and s alone is tokenized without errors as one   *)
(* token T, not Whitespace or Comment, and Eof, then the input is          *)
(* tokenized without errors as Whitespace at 0, a token of T's kind and    *)
(* data at 2, Whitespace, Eof.                                             *)
(***************************************************************************)
IsPadded(src) ==
    /\ Len(src) >= 5
    /\ SubSeq(src, 1, 2) = <<" ", " ">>
    /\ SubSeq(src, Len(src) - 1, Len(src)) = <<" ", " ">>

Inner(src) == SubSeq(src, 3, Len(src) - 2)

\* s alone is tokenized as [T, Eof], T not Whitespace or Comment, no errors
SingleToken(r) ==
    /\ r.pc = "done"
    /\ r.errors = <<>>
    /\ Len(r.tokens) = 2
    /\ r.tokens[1].kind \notin {"Whitespace", "Comment"}

C8_WhitespaceIndependence ==
    (Returned /\ IsPadded(Source) /\ SingleToken(Lex(Inner(Source)))) =>
        LET T == Lex(Inner(Source)).tokens[1]
        IN /\ errors = <<>>
           /\ Len(tokens) = 4
           /\ tokens[1].kind = "Whitespace" /\ tokens[1].index = 0
           /\ tokens[2].kind = T.kind
           /\ tokens[2].data = T.data
           /\ tokens[2].index = 2
           /\ tokens[3].kind = "Whitespace"
           /\ tokens[4].kind = "Eof"

(***************************************************************************)
(* C9  When the input is a concatenation of Names, punctuators, whitespace *)
(* runs and `...` spreads (each Name and each whitespace run as long as it *)
(* can be), Lexer::new reports no error and returns one token per lexeme,  *)
(* in source order, of the lexeme's kind and with the lexeme as data, and  *)
(* then Eof.                                                               *)
(***************************************************************************)
\* str::chars
RECURSIVE Chars(_, _)
Chars(src, p) ==
    IF p >= Len(src)
    THEN <<>>
    ELSE LET c == DecodeAt(src, p)
         IN <<c>> \o Chars(src, p + Len(Utf8(c)))

NameChars == Letters \cup {"_"} \cup Digits

\* The length of the longest prefix of cs made of characters of S.
RECURSIVE RunLen(_, _)
RunLen(cs, S) ==
    IF cs = <<>> \/ Head(cs) \notin S THEN 0 ELSE 1 + RunLen(Tail(cs), S)

Lexeme(kind, cs) == [kind |-> kind, data |-> Utf8Str(cs)]

\* The lexemes of the characters cs, by the lexical grammar; the kind "Ill"
\* stands where cs is no concatenation of the lexemes of this claim.
RECURSIVE Lexemes(_)
Lexemes(cs) ==
    IF cs = <<>> THEN <<>>
    ELSE IF Head(cs) \in Letters \cup {"_"} THEN
        LET n == RunLen(cs, NameChars)
        IN <<Lexeme("Name", SubSeq(cs, 1, n))>> \o Lexemes(Drop(cs, n))
    ELSE IF Head(cs) \in WhitespaceChars THEN
        LET n == RunLen(cs, WhitespaceChars)
        IN <<Lexeme("Whitespace", SubSeq(cs, 1, n))>> \o Lexemes(Drop(cs, n))
    ELSE IF Head(cs) \in Punctuators THEN
        <<Lexeme(PunctuatorKind(Head(cs)), <<Head(cs)>>)>> \o Lexemes(Tail(cs))
    ELSE IF Len(cs) >= 3 /\ SubSeq(cs, 1, 3) = <<".", ".", ".">> THEN
        <<Lexeme("Spread", SubSeq(cs, 1, 3))>> \o Lexemes(Drop(cs, 3))
    ELSE
        <<Lexeme("Ill", <<>>)>>

WellFormed(cs) == \A i \in 1..Len(Lexemes(cs)) : Lexemes(cs)[i].kind # "Ill"

Quotes3 == <<"\"", "\"", "\"">>

IsBlockString(src) ==
    /\ Len(src) >= 6
    /\ SubSeq(src, 1, 3) = Quotes3
    /\ SubSeq(src, Len(src) - 2, Len(src)) = Quotes3
    /\ \A i \in 4..(Len(src) - 3) : src[i] # "\""

C10_BlockString ==
    (Returned /\ IsBlockString(Source)) =>
        /\ errors = <<>>
        /\ Len(tokens) = 2
        /\ tokens[1] = [kind |-> "StringValue", data |-> Source, index |-> 0]
        /\ tokens[2].kind = "Eof"

(***************************************************************************)
(* C11  A Comment token holds no line terminator; when the comment ends    *)
(* before the end of the input, the token after it is a Whitespace token   *)
(* that begins with the line terminator.                                   *)
(***************************************************************************)
HasLineTerminator(data) ==
    \E i \in 1..Len(data) : is_line_terminator(data[i])

C11_CommentExcludesLineTerminator ==
    \A i \in 1..Len(tokens) :
        tokens[i].kind = "Comment" =>
            /\ ~HasLineTerminator(tokens[i].data)
            /\ (/\ i < Len(tokens)
                /\ tokens[i].index + Len(tokens[i].data) < Len(Source))
                   => /\ tokens[i + 1].kind = "Whitespace"
                      /\ is_line_terminator(tokens[i + 1].data[1])

(***************************************************************************)
(* C12  A character that starts no token is reported as the error          *)
(* "Unexpected character" with the character as data, and is consumed: it  *)
(* is in no later token, so the data of a punctuator token is the          *)
(* punctuator alone and the data of a Name token holds name characters     *)
(* only.                                                                   *)
(***************************************************************************)
PunctuatorKinds == {PunctuatorKind(c) : c \in Punctuators}

StartsToken(c) ==
    \/ c \in {"\"", "#", ".", "+", "-"}
    \/ is_whitespace(c)
    \/ is_ident_char(c)
    \/ is_digit_char(c)
    \/ c \in Punctuators

C12_UnexpectedCharacterConsumed ==
    /\ \A j \in 1..Len(errors) :
           errors[j].message = "Unexpected character" =>
               \E c \in Alphabet : ~StartsToken(c) /\ errors[j].data = Utf8(c)
    /\ \A i \in 1..Len(tokens) :
           /\ tokens[i].kind \in PunctuatorKinds =>
                  /\ Len(tokens[i].data) = 1
                  /\ PunctuatorKind(tokens[i].data[1]) = tokens[i].kind
           /\ tokens[i].kind = "Name" =>
                  \A k \in 1..Len(tokens[i].data) :
                      tokens[i].data[k] \in NameChars

(***************************************************************************)
(* C13  Error finalization: when the error slot holds a recoverable error  *)
(* recorded in a Float (duplicate `.`) or in a string (invalid escape),    *)
(* the step that ends the scanner invocation pushes no token and one       *)
(* error: the recorded one, with the token's start index as index and as   *)
(* data the slice of the input from that index up to where the scanner     *)
(* goes on; and it leaves the error slot empty.  This holds for an         *)
(* invocation ended by a character and for one ended by the end of input.  *)
(***************************************************************************)
RecoverableMessages ==
    {"Unexpected character {}", "unexpected escaped character"}

\* A recoverable error is in the slot while a Float or a string is scanned.
RecordedInToken ==
    /\ pc = "loop"
    /\ state \in {"FloatLiteral", "ExponentLiteral",
                  "StringLiteral", "StringLiteralBackslash"}
    /\ err(cursor) # None
    /\ err(cursor)[1].message \in RecoverableMessages

\* The step ends the scanner invocation (new_advance returns).
InvocationEnds == pc = "loop" /\ pc' \in {"call", "done"}

\* The offset at which the next invocation goes on reading.
NextStart(cur) == IF cur.pending # None THEN cur.index ELSE Len(cur.source)

FinalizesRecorded ==
    (RecordedInToken /\ InvocationEnds) =>
        /\ tokens' = tokens
        /\ Len(errors') = Len(errors) + 1
        /\ Last(errors').message = err(cursor)[1].message
        /\ Last(errors').index = token.index
        /\ Last(errors').data =
               Slice(Source, token.index, NextStart(cursor'))
        /\ err(cursor') = None

C13_ErrorFinalization == [][FinalizesRecorded]_vars

(***************************************************************************)
(* C14  When the input begins with `+` or `-` and a character that is not  *)
(* a digit, the first error is "Unexpected character" at offset 0, and     *)
(* the character after the sign starts the next token: the tokens are the  *)
(* tokens of the input without its sign, each one byte further on, and the *)
(* other errors are the errors of the input without its sign.              *)
(***************************************************************************)
SignThenNonDigit(src) ==
    /\ Len(src) >= 2
    /\ src[1] \in {"+", "-"}
    /\ ~is_digit_char(DecodeAt(src, 1))

KindAndData(ts) ==
    [i \in 1..Len(ts) |-> [kind |-> ts[i].kind, data |-> ts[i].data]]

MessageAndData(es) ==
    [i \in 1..Len(es) |-> [message |-> es[i].message, data |-> es[i].data]]

C14_SignThenNonDigit ==
    (Returned /\ SignThenNonDigit(Source)) =>
        LET rest == Lex(Drop(Source, 1))
        IN /\ errors # <<>>
           /\ errors[1].message = "Unexpected character {}"
           /\ errors[1].index = 0
           /\ rest.pc = "done" =>
                  /\ KindAndData(tokens) = KindAndData(rest.tokens)
                  /\ \A i \in 1..(Len(tokens) - 1) :
                         tokens[i].index = rest.tokens[i].index + 1
                  /\ MessageAndData(Tail(errors)) = MessageAndData(rest.errors)

(***************************************************************************)
(* C15  When the input begins with one or two dots and then a character    *)
(* that is not a dot, the errors Lexer::new returns hold an "Unterminated  *)
(* spread operator" error at offset 0, whatever follows in the input, and  *)
(* no Spread token is returned for offset 0.                               *)
(***************************************************************************)
UnterminatedSpread(src) ==
    /\ Len(src) >= 2
    /\ src[1] = "."
    /\ \/ src[2] # "."
       \/ Len(src) >= 3 /\ src[3] # "."

C15_UnterminatedSpreadReported ==
    (Returned /\ UnterminatedSpread(Source)) =>
        /\ \E j \in 1..Len(errors) :
               /\ errors[j].message = "Unterminated spread operator"
               /\ errors[j].index = 0
        /\ \A i \in 1..Len(tokens) :
               tokens[i].kind = "Spread" => tokens[i].index # 0

(***************************************************************************)
(* C16  When the input is a double quote, a text without double quote or   *)
(* backslash that holds a line terminator, a closing double quote and a    *)
(* rest, the first error has as data the string from its opening to its    *)
(* closing quote, at offset 0, and the rest is tokenized as it is alone:   *)
(* the tokens and the other errors are those of the rest.                  *)
(***************************************************************************)
\* The position (from 1) of the first double quote after the opening one.
ClosingQuote(src) ==
    CHOOSE k \in 2..Len(src) :
        /\ src[k] = "\""
        /\ \A i \in 2..(k - 1) : src[i] # "\""

StringWithLineTerminator(src) ==
    /\ Len(src) >= 3
    /\ src[1] = "\""
    /\ \E k \in 2..Len(src) : src[k] = "\""
    /\ \A i \in 2..(ClosingQuote(src) - 1) : src[i] # "\\"
    /\ \E i \in 2..(ClosingQuote(src) - 1) : is_line_terminator(src[i])

C16_LineTerminatorInString ==
    (Returned /\ StringWithLineTerminator(Source)) =>
        LET k == ClosingQuote(Source)
            rest == Lex(Drop(Source, k))
        IN /\ errors # <<>>
           /\ errors[1].data = SubSeq(Source, 1, k)
           /\ errors[1].index = 0
           /\ rest.pc = "done" =>
                  /\ KindAndData(tokens) = KindAndData(rest.tokens)
                  /\ MessageAndData(Tail(errors)) = MessageAndData(rest.errors)

(***************************************************************************)
(* C17  When the input is a double quote and then, up to its end, only     *)
(* characters that are no double quote and no line terminator, Lexer::new  *)
(* returns exactly one error, "unterminated string value" at offset 0, no  *)
(* StringValue token, and the Eof token last.                              *)
(***************************************************************************)
StringToEndOfInput(src) ==
    /\ Len(src) >= 1
    /\ src[1] = "\""
    /\ \A i \in 2..Len(src) : src[i] # "\"" /\ ~is_line_terminator(src[i])

C17_UnterminatedStringAtEof ==
    (Returned /\ StringToEndOfInput(Source)) =>
        /\ Len(errors) = 1
        /\ errors[1].message = "unterminated string value"
        /\ errors[1].index = 0
        /\ \A i \in 1..Len(tokens) : tokens[i].kind # "StringValue"
        /\ Last(tokens).kind = "Eof"

(***************************************************************************)
(* C18  Whenever Lexer::new is about to call the scanner, the cursor's     *)
(* error slot is empty: no error recorded in one invocation is left for a  *)
(* later one.                                                              *)
(***************************************************************************)
C18_ErrSlotEmptyAtStart == pc = "call" => err(cursor) = None

(***************************************************************************)
(* C19  Cursor position invariant: in every state the scanner brings the   *)
(* cursor to (between its steps, after bump, after drain),                 *)
(* index <= offset <= len(source); each cursor operation (bump, eatc,      *)
(* prev_str, current_str, drain) applied there keeps this and moves        *)
(* neither index nor offset back; and no step of the scanner moves index   *)
(* or offset back.                                                         *)
(***************************************************************************)
PositionOk(cur) == cur.index <= cur.offset /\ cur.offset <= Len(cur.source)

NotMovedBack(cur, after) ==
    after.index >= cur.index /\ after.offset >= cur.offset

Keeps(cur, after) == PositionOk(after) /\ NotMovedBack(cur, after)

OperationsKeep(cur) ==
    /\ PositionOk(cur)
    /\ Keeps(cur, bump(cur).cur)
    /\ \A c \in Alphabet : ~eatc(cur, c).panic => Keeps(cur, eatc(cur, c).cur)
    /\ ~prev_str(cur).panic => Keeps(cur, prev_str(cur).cur)
    /\ ~current_str(cur).panic => Keeps(cur, current_str(cur).cur)
    /\ Keeps(cur, drain(cur))

PositionInvariant ==
    /\ OperationsKeep(cursor)
    /\ pc = "loop" =>
           /\ OperationsKeep(bump(cursor).cur)
           /\ OperationsKeep(drain(bump(cursor).cur))

C19_CursorPosition ==
    []PositionInvariant /\ [][NotMovedBack(cursor, cursor')]_vars

\* The scanner is in a token that began after the start of the input and has
\* read more than one character of it.
C19_Witness ==
    /\ pc = "loop"
    /\ 0 < cursor.index
    /\ cursor.index < cursor.offset
    /\ cursor.offset < Len(Source) - 1

(***************************************************************************)
(* C20  Pending-character invariant: whenever the pending slot is set, it  *)
(* holds the character at source[offset], the character iterator is just   *)
(* after that character, and bump returns that character, clears the slot  *)
(* and changes nothing else of the cursor (offset included).  This holds   *)
(* in every state the scanner brings the cursor to, and after an eatc      *)
(* applied there.                                                          *)
(***************************************************************************)
PendingOk(cur) ==
    cur.pending # None =>
        /\ cur.offset < Len(cur.source)
        /\ IsCharBoundary(cur.source, cur.offset)
        /\ cur.pending = Some(DecodeAt(cur.source, cur.offset))
        /\ cur.chars = cur.offset + Len(Utf8(cur.pending[1]))
        /\ bump(cur).c = cur.pending
        /\ bump(cur).cur = [cur EXCEPT !.pending = None]

PendingOkAfterEatc(cur) ==
    \A c \in Alphabet : ~eatc(cur, c).panic => PendingOk(eatc(cur, c).cur)

C20_PendingCharacter ==
    /\ PendingOk(cursor)
    /\ PendingOkAfterEatc(cursor)
    /\ pc = "loop" =>
           /\ PendingOk(bump(cursor).cur)
           /\ PendingOkAfterEatc(bump(cursor).cur)

\* A multi-byte character is pending after a token, at the start of an
\* invocation.
C20_Witness ==
    /\ pc = "loop"
    /\ state = "Start"
    /\ cursor.offset > 0
    /\ cursor.pending = Some(NEL)

(***************************************************************************)
(* The cursor when the scanner calls prev_str or current_str: after the    *)
(* bump() of the loop of new_advance (and after drain() in a string).      *)
(***************************************************************************)
AfterBump == bump(cursor).cur

\* A character follows the one at offset.
HasNextChar(cur) == cur.offset + 1 < Len(cur.source)

(***************************************************************************)
(* C21  As claimed: current_str returns source[index..=offset]; afterwards *)
(* index is the offset of the first character after the slice (one past    *)
(* the slice at the end of the input), and pending holds that character if *)
(* and only if there is one.                                               *)
(***************************************************************************)
CurrentStrSliceAndPending(cur, r) ==
    /\ r.slice = SubSeq(cur.source, cur.index + 1, cur.offset + 1)
    /\ r.cur.pending # None <=> HasNextChar(cur)
    /\ HasNextChar(cur) =>
           r.cur.pending = Some(DecodeAt(cur.source, cur.offset + 1))

C21_CurrentStrIndexPastSlice ==
    pc = "loop" =>
        LET r == current_str(AfterBump)
        IN ~r.panic =>
               /\ CurrentStrSliceAndPending(AfterBump, r)
               /\ r.cur.index = AfterBump.offset + 1

(***************************************************************************)
(* C21  As amended: current_str returns source[index..=offset]; afterwards *)
(* index is the offset of the first character after the slice and pending  *)
(* holds that character, when there is one; at the end of the input index  *)
(* is the offset of the last character of the slice and pending is empty.  *)
(***************************************************************************)
C21_CurrentStr ==
    pc = "loop" =>
        LET r == current_str(AfterBump)
        IN ~r.panic =>
               /\ CurrentStrSliceAndPending(AfterBump, r)
               /\ r.cur.index = IF HasNextChar(AfterBump)
                                THEN AfterBump.offset + 1
                                ELSE AfterBump.offset

\* current_str has returned a punctuator at the end of an input of several
\* characters, and before that one in the middle of it.
C21_Witness ==
    /\ pc = "call"
    /\ Len(tokens) >= 2
    /\ Last(tokens).kind = "LCurly"
    /\ tokens[1].kind = "LCurly"
    /\ cursor.pending = None
    /\ cursor.index = Len(Source) - 1

(***************************************************************************)
(* C22  prev_str returns source[index..offset], sets index to offset and   *)
(* pending to the character at offset, and leaves offset and the character *)
(* iterator where they are; and every slice prev_str returns when the      *)
(* scanner calls it is non-empty.                                          *)
(***************************************************************************)
PrevStrOk(cur) ==
    LET r == prev_str(cur)
    IN /\ ~r.panic
       /\ r.slice = SubSeq(cur.source, cur.index + 1, cur.offset)
       /\ r.cur.index = cur.offset
       /\ r.cur.pending = Some(DecodeAt(cur.source, cur.offset))
       /\ r.cur.offset = cur.offset
       /\ r.cur.chars = cur.chars

\* The scanner calls prev_str in this state, for the character c just read.
CallsPrevStr(c) ==
    \/ state = "Ident" /\ ~(is_ident_char(c) \/ is_digit_char(c))
    \/ state = "Whitespace" /\ ~is_whitespace(c)
    \/ state = "IntLiteral" /\ ~is_digit_char(c) /\ c \notin {".", "e", "E"}
    \/ state = "FloatLiteral" /\ ~is_digit_char(c) /\ c \notin {".", "e", "E"}
    \/ state = "StringLiteral" /\ c # "\"" /\ is_line_terminator(c)

\* The cursor prev_str is called on.
PrevStrCursor ==
    IF state = "StringLiteral" THEN drain(AfterBump) ELSE AfterBump

C22_PrevStr ==
    (pc = "loop" /\ bump(cursor).c # None) =>
        /\ PrevStrOk(AfterBump)
        /\ PrevStrOk(drain(AfterBump))
        /\ CallsPrevStr(bump(cursor).c[1]) =>
               prev_str(PrevStrCursor).slice # <<>>

\* prev_str has returned a Name that began after the start of the input.
C22_Witness ==
    /\ pc = "call"
    /\ Len(tokens) >= 2
    /\ Last(tokens).kind = "Name"
    /\ Last(tokens).index > 0
    /\ cursor.pending # None
    /\ cursor.index = cursor.offset

(***************************************************************************)
(* C23  The error register is one slot with take semantics: add_err puts   *)
(* its error in place of the one stored; and when the scanner reads a      *)
(* stored error with err() (at the end of the input, in a state other than *)
(* Start, StringLiteral and SpreadOperator), the slot is empty afterwards. *)
(***************************************************************************)
AddErrOverwrites ==
    LET e1 == ErrorNew("first", <<>>, <<>>)
        e2 == ErrorNew("second", <<>>, <<>>)
    IN /\ err(add_err(cursor, e2)) = Some(e2)
       /\ err(add_err(add_err(cursor, e1), e2)) = Some(e2)

\* The end-of-input default branch: if let Some(mut err) = self.err()
ReadsStoredError ==
    /\ pc = "loop"
    /\ bump(cursor).c = None
    /\ state \notin {"Start", "StringLiteral", "SpreadOperator"}
    /\ err(cursor) # None

ErrTakes == ReadsStoredError => err(cursor') = None

C23_ErrRegisterTakes == []AddErrOverwrites /\ [][ErrTakes]_vars

(***************************************************************************)
(* C24  eatc(c) with no character pending: when the next unread character  *)
(* (the one bump would return) is c, it returns true and the bump after it *)
(* returns the character after c; when it is another character, it returns *)
(* false and the bump after it returns that character; at the end of the   *)
(* input it returns false and leaves pending empty and offset unchanged.   *)
(* With a character pending it aborts and reads nothing.                   *)
(***************************************************************************)
\* The step is a call of eatc.
EatcCalled == pc = "cursor" /\ ret' # None /\ ret'[1].op = "eatc"

EatcAsClaimed ==
    EatcCalled =>
        LET c == ret'[1].arg[1]
            next == bump(cursor)
        IN IF cursor.pending # None THEN
               pc' = "panic" /\ cursor' = cursor
           ELSE IF next.c = None THEN
               /\ pc' = "cursor"
               /\ ret'[1].value = FALSE
               /\ cursor'.pending = None
               /\ cursor'.offset = cursor.offset
           ELSE IF next.c = Some(c) THEN
               /\ pc' = "cursor"
               /\ ret'[1].value = TRUE
               /\ cursor'.pending = None
               /\ bump(cursor').c = bump(next.cur).c
           ELSE
               /\ pc' = "cursor"
               /\ ret'[1].value = FALSE
               /\ bump(cursor').c = next.c
               /\ bump(bump(cursor').cur).c = bump(next.cur).c

C24_Eatc == [][EatcAsClaimed]_vars

\* eatc has returned true for a character after the first, and a character
\* is left to read.
C24_Witness ==
    /\ pc = "cursor"
    /\ ret # None
    /\ ret[1].op = "eatc"
    /\ ret[1].value = TRUE
    /\ cursor.offset > 0
    /\ bump(cursor).c # None

(***************************************************************************)
(* C25  A malformed spread does not abort the tokenization of the rest:    *)
(* when the scanner, in the spread state, reads a character that is not a  *)
(* dot, that step ends the invocation with one error and no token; and     *)
(* when the input begins with a malformed spread, holds only dots, spaces, *)
(* letters and punctuators, and ends with a space and a letter, the token  *)
(* before Eof is the Name of that letter.                                  *)
(***************************************************************************)
SpreadReadsNonDot ==
    /\ pc = "loop"
    /\ state = "SpreadOperator"
    /\ bump(cursor).c \notin {None, Some(".")}

EndsWithOneError ==
    /\ pc' = "call"
    /\ Len(errors') = Len(errors) + 1
    /\ tokens' = tokens

EndsWithName(src) ==
    /\ \A i \in 1..Len(src) : src[i] \in {".", " "} \cup Letters \cup Punctuators
    /\ Len(src) >= 2
    /\ src[Len(src) - 1] = " "
    /\ src[Len(src)] \in Letters

NameAfterMalformedSpread ==
    (Returned /\ UnterminatedSpread(Source) /\ EndsWithName(Source)) =>
        /\ Len(tokens) >= 2
        /\ tokens[Len(tokens) - 1].kind = "Name"
        /\ tokens[Len(tokens) - 1].data = <<Source[Len(Source)]>>

C25_MalformedSpreadDoesNotAbort ==
    /\ []NameAfterMalformedSpread
    /\ [][SpreadReadsNonDot => EndsWithOneError]_vars

(***************************************************************************)
(* C26  When the input begins with a regular string that is closed on its  *)
(* line, where a backslash makes the character after it part of the        *)
(* string (so a double quote after a backslash does not close it, and one  *)
(* after an escaped backslash does): if every backslash is followed by one *)
(* of " \ / b f n r t u, the first result of Lexer::new is the StringValue *)
(* token of that string, at offset 0; otherwise it is the error            *)
(* "unexpected escaped character" with that string as data, at offset 0.   *)
(* The invocation after it goes on just after the closing quote.           *)
(***************************************************************************)
EscapeChars == {"\"", "\\", "/", "b", "f", "n", "r", "t", "u"}

\* The position (from 1) of the double quote that closes the string read
\* from position i on; 0 when the line or the input ends before it.
RECURSIVE StringClose(_, _)
StringClose(src, i) ==
    IF i > Len(src) THEN 0
    ELSE IF src[i] = "\"" THEN i
    ELSE IF is_line_terminator(src[i]) THEN 0
    ELSE IF src[i] = "\\" THEN
        IF i + 1 > Len(src) THEN 0 ELSE StringClose(src, i + 2)
    ELSE StringClose(src, i + 1)

\* A backslash from position i on, before position k, is followed by a
\* character that is no escape character.
RECURSIVE BadEscape(_, _, _)
BadEscape(src, i, k) ==
    IF i >= k THEN FALSE
    ELSE IF src[i] = "\\" THEN
        src[i + 1] \notin EscapeChars \/ BadEscape(src, i + 2, k)
    ELSE BadEscape(src, i + 1, k)

IsString(src) ==
    Len(src) >= 2 /\ src[1] = "\"" /\ StringClose(src, 2) > 0

C26_StringEscapes ==
    IsString(Source) =>
        LET k == StringClose(Source, 2)
            lexeme == SubSeq(Source, 1, k)
        IN /\ (Len(tokens) + Len(errors) = 1 /\ pc = "call") =>
                  NextStart(cursor) = k
           /\ IF BadEscape(Source, 2, k)
              THEN /\ tokens # <<>> => errors # <<>>
                   /\ errors # <<>> =>
                          /\ errors[1].message = "unexpected escaped character"
                          /\ errors[1].data = lexeme
                          /\ errors[1].index = 0
              ELSE /\ errors # <<>> => tokens # <<>>
                   /\ tokens # <<>> =>
                          tokens[1] = [kind |-> "StringValue",
                                       data |-> lexeme, index |-> 0]

\* A string that holds an escaped double quote, and a Name after it, have
\* been tokenized.
C26_Witness ==
    /\ Returned
    /\ Source = <<"\"", "\\", "\"", "\"", "e">>
    /\ StringClose(Source, 2) = 4
    /\ Len(tokens) = 3
    /\ tokens[1].kind = "StringValue"
    /\ tokens[2].kind = "Name"

(***************************************************************************)
(* C27  Every Name token, for every input: its data begins with a letter   *)
(* or an underscore, holds letters, digits and underscores only, and is    *)
(* maximal: the character of the input right after it is none of those.    *)
(***************************************************************************)
NameToken(t) ==
    /\ t.data # <<>>
    /\ t.data[1] \in Letters \cup {"_"}
    /\ \A k \in 1..Len(t.data) : t.data[k] \in NameChars
    /\ t.index + Len(t.data) < Len(Source) =>
           Source[t.index + Len(t.data) + 1] \notin NameChars

C27_NameTokens ==
    \A i \in 1..Len(tokens) : tokens[i].kind = "Name" => NameToken(tokens[i])

(***************************************************************************)
(* C28  Every Int and Float token, also when the number is the last        *)
(* lexeme of the input: its data holds a digit; a leading sign is followed *)
(* at once by a digit; an exponent marker is followed, after an optional   *)
(* sign, by a digit; an Int holds none of "." "e" "E" and a Float holds    *)
(* one of them.                                                            *)
(***************************************************************************)
DigitAt(d, j) == j <= Len(d) /\ d[j] \in Digits

NumberToken(t) ==
    LET d == t.data IN
    /\ \E j \in 1..Len(d) : d[j] \in Digits
    /\ d[1] \in {"+", "-"} => DigitAt(d, 2)
    /\ \A j \in 1..Len(d) :
           d[j] \in {"e", "E"} =>
               \/ DigitAt(d, j + 1)
               \/ j < Len(d) /\ d[j + 1] \in {"+", "-"} /\ DigitAt(d, j + 2)
    /\ t.kind = "Int" <=> \A j \in 1..Len(d) : d[j] \notin {".", "e", "E"}

C28_NumberTokens ==
    \A i \in 1..Len(tokens) :
        tokens[i].kind \in {"Int", "Float"} => NumberToken(tokens[i])

(***************************************************************************)
(* C29  Lexer::new never aborts, whatever UTF-8 text it is given: every    *)
(* slice it takes of the input begins and ends on a character boundary,    *)
(* also when the last character of a token is a character of several       *)
(* bytes (the whitespace U+0085, for one).                                 *)
(***************************************************************************)
C29_NeverAborts == pc # "panic"

(***************************************************************************)
(* C30  Every ScalarTypeDef that scalar_type_definition returns with       *)
(* extend true has a directives map that is not empty.                     *)
(***************************************************************************)
C30_ExtendHasDirectives ==
    pc = "returned" /\ ret[1].ok =>
        LET d == ret[1].value[1] IN d.extend => d.directives # {}

\* A definition with extend true has been returned for a builder that
\* holds a scalar already.
C30_Witness ==
    /\ pc = "returned"
    /\ ret[1].ok
    /\ ret[1].value[1].extend
    /\ scalar_type_defs # <<>>

(***************************************************************************)
(* C31  Whatever calls of scalar_type_definition have had their results    *)
(* appended to scalar_type_defs: every definition with extend true carries *)
(* the name of a definition before it that has extend false, and every     *)
(* definition with extend false carries a new name, not one picked from    *)
(* the scalars before it.                                                  *)
(***************************************************************************)
\* The definitions before the i-th.
Before(i) == SubSeq(scalar_type_defs, 1, i - 1)

ExtensionNamesEarlierScalar ==
    \A i \in 1..Len(scalar_type_defs) :
        scalar_type_defs[i].extend =>
            scalar_type_defs[i].name \in available_scalars(Before(i))

DefinitionHasNewName ==
    \A i \in 1..Len(scalar_type_defs) :
        ~scalar_type_defs[i].extend =>
            scalar_type_defs[i].name \notin available_scalars(Before(i))

C31_ExtendMatchesName == ExtensionNamesEarlierScalar /\ DefinitionHasNewName

====
